---------------------------- MODULE Spec2Model ----------------------------
(*
  A model of the ticket workflow of the AI support agent
  (src/workflow.py, class SupportWorkflow) and of the GraphState that
  SupportWorkflow.process returns (src/models/GraphState.py).

  One behaviour is one call of SupportWorkflow.process: the caller's
  conversation context is given in Init, the question is the argument of
  process, and every node of the compiled graph is one action.  The
  classification port (QuestionClassifier.classify as called in
  _classify_question_node) and the generation port (SupportHandler.handle
  as called in _generate_response_node) are the environment: each call
  either raises or returns a value drawn from a small set.

  Units.  Confidences and thresholds are integers in ten-thousandths
  (0.75 is 7500), quality scores are integers in tenths (1.0 is 10,
  0.6 is 6).  The penalties 0.3, 0.2, 0.1 of _quality_check_node give, in
  IEEE doubles, the same answers to "score < 0.6" as the exact tenths do
  for every combination of penalties.

  Texts are sequences of one-character strings, so that str.lower,
  str.strip, len and the substring test "keyword in text" are computed
  rather than assumed.
*)
EXTENDS Integers, Sequences, FiniteSets, TLC

\* ------------------------------------------------------------------ texts

Upper == <<"A","B","C","D","E","F","G","H","I","J","K","L","M",
           "N","O","P","Q","R","S","T","U","V","W","X","Y","Z">>
LowerCase == <<"a","b","c","d","e","f","g","h","i","j","k","l","m",
               "n","o","p","q","r","s","t","u","v","w","x","y","z">>

\* str.lower on one character
LowerChar(c) ==
    IF \E i \in 1..Len(Upper) : Upper[i] = c
    THEN LowerCase[CHOOSE i \in 1..Len(Upper) : Upper[i] = c]
    ELSE c

\* str.lower
Lower(text) == [i \in 1..Len(text) |-> LowerChar(text[i])]

IsSpace(c) == c \in {" ", "\t", "\n", "\r"}

RECURSIVE StripLeft(_)
StripLeft(text) ==
    IF text # <<>> /\ IsSpace(Head(text)) THEN StripLeft(Tail(text)) ELSE text

RECURSIVE StripRight(_)
StripRight(text) ==
    IF text # <<>> /\ IsSpace(text[Len(text)])
    THEN StripRight(SubSeq(text, 1, Len(text) - 1))
    ELSE text

\* str.strip
Strip(text) == StripRight(StripLeft(text))

\* the substring test "keyword in text"
Contains(text, keyword) ==
    \E i \in 1..(Len(text) - Len(keyword) + 1) :
        SubSeq(text, i, i + Len(keyword) - 1) = keyword

escalation_keywords ==
    { <<"s", "p", "e", "a", "k", " ", "t", "o", " ", "m", "a", "n", "a", "g", "e", "r">>,
      <<"h", "u", "m", "a", "n", " ", "a", "g", "e", "n", "t">>,
      <<"c", "a", "n", "c", "e", "l", " ", "s", "u", "b", "s", "c", "r", "i", "p", "t", "i", "o", "n">>,
      <<"l", "e", "g", "a", "l", " ", "a", "c", "t", "i", "o", "n">>,
      <<"c", "o", "m", "p", "l", "a", "i", "n", "t">>,
      <<"t", "e", "r", "r", "i", "b", "l", "e">>,
      <<"w", "o", "r", "s", "t">> }
urgent_words ==
    { <<"u", "r", "g", "e", "n", "t">>,
      <<"e", "m", "e", "r", "g", "e", "n", "c", "y">>,
      <<"a", "s", "a", "p">>,
      <<"i", "m", "m", "e", "d", "i", "a", "t", "e", "l", "y">> }
mild_urgency_words ==
    { <<"s", "o", "o", "n">>,
      <<"q", "u", "i", "c", "k">>,
      <<"f", "a", "s", "t">> }
negative_words ==
    { <<"a", "n", "g", "r", "y">>,
      <<"f", "r", "u", "s", "t", "r", "a", "t", "e", "d">>,
      <<"t", "e", "r", "r", "i", "b", "l", "e">>,
      <<"a", "w", "f", "u", "l">>,
      <<"h", "a", "t", "e">>,
      <<"w", "o", "r", "s", "t">>,
      <<"h", "o", "r", "r", "i", "b", "l", "e">> }
positive_words ==
    { <<"g", "r", "e", "a", "t">>,
      <<"e", "x", "c", "e", "l", "l", "e", "n", "t">>,
      <<"l", "o", "v", "e">>,
      <<"a", "m", "a", "z", "i", "n", "g">>,
      <<"w", "o", "n", "d", "e", "r", "f", "u", "l">>,
      <<"p", "e", "r", "f", "e", "c", "t">> }
QManager ==
    <<"T", "H", "I", "S", " ", "I", "S", " ", "U", "N", "A", "C", "C", "E", "P", "T", "A", "B", "L", "E", ",", " ", "g", "e", "t", " ", "m", "e", " ", "a", " ", "m", "a", "n", "a", "g", "e", "r", " ", "n", "o", "w", ",", " ", "I", "'", "m", " ", "f", "u", "r", "i", "o", "u", "s">>
QShort ==
    <<" ", "a", " ">>
QSpeakSoon ==
    <<"I", " ", "n", "e", "e", "d", " ", "t", "o", " ", "s", "p", "e", "a", "k", " ", "t", "o", " ", "m", "a", "n", "a", "g", "e", "r", " ", "s", "o", "o", "n">>
QNegative ==
    <<"a", "w", "f", "u", "l", " ", "h", "o", "r", "r", "i", "b", "l", "e", " ", "a", "p", "p">>
QUrgent ==
    <<"U", "R", "G", "E", "N", "T", ":", " ", "l", "o", "g", "i", "n", " ", "e", "r", "r", "o", "r">>
QCancel ==
    <<"H", "o", "w", " ", "d", "o", " ", "I", " ", "c", "a", "n", "c", "e", "l", " ", "m", "y", " ", "s", "u", "b", "s", "c", "r", "i", "p", "t", "i", "o", "n", "?">>

\* The questions process is called with (its argument question_text).
\* QLong is 1001 characters, one more than the documented upper bound.
QLong == [i \in 1..1001 |-> "a"]
QEmpty == <<>>

QuestionTexts ==
    [ manager    |-> QManager,
      short      |-> QShort,
      empty      |-> QEmpty,
      long       |-> QLong,
      speak_soon |-> QSpeakSoon,
      negative   |-> QNegative,
      urgent     |-> QUrgent,
      cancel     |-> QCancel ]

Questions == DOMAIN QuestionTexts

\* -------------------------------------------------------------- constants

\* self.confidence_threshold = 0.75, in ten-thousandths
confidence_threshold == 7500
\* self.max_retries = 3
max_retries == 3
\* workflow.invoke(initial_state) is called without a config, so the graph
\* library's default recursion limit applies: after this many node
\* executions without reaching END, invoke raises GraphRecursionError.
RecursionLimit == 25

Categories == {"billing", "technical", "general"}
CustomerTiers == {"standard", "premium", "enterprise"}

\* Priority (str, Enum), in the documented order LOW < MEDIUM < HIGH < URGENT
PriorityRank(p) ==
    CASE p = "low" -> 1 [] p = "medium" -> 2 [] p = "high" -> 3 [] p = "urgent" -> 4

\* Python's None, for the Optional fields that hold records
NoneValue == [kind |-> "None"]

\* What the classification port can return: a category and a confidence
\* (ten-thousandths), on both sides of the three tier-adjusted thresholds.
Confidences == {5000, 7000, 7200, 8000}
ClassificationResults ==
    [kind : {"ClassificationResult"}, category : Categories, confidence : Confidences]

\* What the generation port can return: a SupportResponse whose message is
\* known by what _quality_check_node reads of it: its length, whether it
\* contains one of the generic phrases, and the categories whose keyword
\* list has a word in it.  A message of 19 characters can hold a generic
\* phrase and a keyword ("I'm here to help" is 16 characters and contains
\* "help"); the empty message holds neither.
MessageLengths == {19, 100, 1001}
MessageKeywords == {{"billing"}, {"technical", "general"}}
empty_message_response ==
    [kind |-> "SupportResponse", origin |-> "handler", length |-> 0,
     generic |-> FALSE, keywords |-> {}]
HandlerResponses ==
    [kind : {"SupportResponse"}, origin : {"handler"}, length : MessageLengths,
     generic : BOOLEAN, keywords : MessageKeywords]
    \cup {empty_message_response}

\* the responses the workflow synthesizes itself
escalation_response == [kind |-> "SupportResponse", origin |-> "escalate_to_human"]
error_response == [kind |-> "SupportResponse", origin |-> "handle_error"]

\* ------------------------------------------------------------------ state

VARIABLES
    pc,                    \* "idle", "running" (inside workflow.invoke), "returned"
    node,                  \* the graph node to run next, or "END"
    steps,                 \* node executions of this invoke
    visited,               \* the nodes executed so far
    classify_calls,        \* calls of the classification port
    generate_calls,        \* calls of the generation port
    result,                \* the GraphState process returned
    question,              \* state["question"], a key of QuestionTexts
    ticket_id, status, priority, classification, requires_escalation,
    escalation_info, response, errors, retry_count, should_continue,
    next_action,
    quality_check,         \* state["debug_info"]["quality_check"]
    api_calls_made,        \* state["processing_metrics"].api_calls_made
    customer_tier, user_sentiment,
    previous_interactions  \* fields of state["conversation_context"]

control == <<pc, node, steps, visited, classify_calls, generate_calls, result>>
ticket == <<question, ticket_id, status, priority, classification,
            requires_escalation, escalation_info, response, errors, retry_count,
            should_continue, next_action, quality_check, api_calls_made>>
context == <<customer_tier, user_sentiment, previous_interactions>>
workflow_vars == <<control, ticket, context>>

\* The state of one ResponseCache (src/src/cache.py).
VARIABLES
    cache,                 \* self._cache: the entries, least recently used first
    stats,                 \* self.stats
    now,                   \* the clock datetime.now() reads, in hours
    ops,                   \* the cache operations completed so far
    last_op,               \* the last completed operation and what it returned
    recent,                \* the uses made by the last two operations
    last_use               \* per key, the operation that last put or hit it

cache_vars == <<cache, stats, now, ops, last_op, recent, last_use>>

\* The state of one WorkerPool (src/src/worker_pool.py) and of its callers.
VARIABLES
    tasks,                 \* the WorkerTask objects, by task number
    active_tasks,          \* the keys of self.active_tasks
    completed_tasks,       \* self.completed_tasks
    failed_tasks,          \* self.failed_tasks
    worker_pc,             \* per task, where _process_question_worker stands
    shutdown_flag,         \* the instance attribute self.shutdown
    executor_shutdown,     \* self.executor.shutdown has been called
    next_worker_id,        \* self.next_worker_id
    total_tasks_processed, \* self.total_tasks_processed
    worker_stats,          \* self.worker_stats, by worker id
    loaded_total,          \* per task, the total its worker read to add one
    kept_slice,            \* per task, the history slice its worker read to keep
    batch,                 \* the submit_batch call in progress
    calls,                 \* what the callers have seen so far
    waiting                \* the wait_for_completion call in progress

pool_vars == <<tasks, active_tasks, completed_tasks, failed_tasks, worker_pc,
               shutdown_flag, executor_shutdown, next_worker_id,
               total_tasks_processed, worker_stats, loaded_total, kept_slice,
               batch, calls>>

\* the statistics only the worker function writes
stats_vars == <<worker_stats, loaded_total, kept_slice>>

\* the frame of a caller of wait_for_completion, which no operation of the
\* pool touches
caller_vars == <<waiting>>

\* The state dictionary of one call of SupportWorkflow.process_question
\* (src/src/workflow.py), the workflow a pool worker runs.
VARIABLE graph_state

graph_vars == <<graph_state>>

\* what a call of SupportWorkflow.process leaves alone
service_vars == <<cache_vars, pool_vars, caller_vars, graph_vars>>

\* what a cache operation leaves alone
outside_cache == <<workflow_vars, pool_vars, caller_vars, graph_vars>>

\* what a pool operation leaves alone
outside_pool == <<workflow_vars, cache_vars, caller_vars, graph_vars, stats_vars>>

\* what a step of the worker function that keeps statistics leaves alone
outside_worker == <<workflow_vars, cache_vars, caller_vars, graph_vars>>

\* what a step of wait_for_completion leaves alone: it only reads the pool
outside_caller == <<workflow_vars, cache_vars, pool_vars, graph_vars>>

\* what a step of process_question leaves alone
outside_graph == <<workflow_vars, cache_vars, pool_vars, caller_vars>>

vars == <<workflow_vars, service_vars>>

\* --------------------------------------------------------- response cache
\* src/src/cache.py, class ResponseCache.  Every public operation holds
\* self._lock (an RLock) from its first to its last statement, so the calls of
\* concurrent threads, the background cleanup thread included, are serialised
\* and each call is one action.  One clock tick is one hour: the default TTL
\* (Config.CACHE_TTL_SECONDS, 3600 s) is one tick.

max_size == 2              \* ResponseCache(max_size=...)
ttl_seconds == 1           \* ResponseCache(ttl_seconds=...), in hours
MaxTime == 2               \* the clock stops here
MaxOps == 4                \* cache operations in one behaviour

\* timedelta(hours=1) of optimize_cache
stale_after == 1

TResetSpaced ==
    <<" ", " ", "R", "e", "s", "e", "t", " ", " ", " ", "P", "I", "N", " ">>
TReset ==
    <<"r", "e", "s", "e", "t", " ", "p", "i", "n">>
TBilling ==
    <<"B", "i", "l", "l">>
TRefund ==
    <<"f", "e", "e", "?">>

\* question.text of the UserQuestion arguments
CacheTexts == {TResetSpaced, TReset, TBilling, TRefund}

\* The SupportResponse argument of put: the caller passes a response object
\* it has just built, identified here by the number of the operation.
NewResponse(n) == [response_id |-> n]

\* str.split(): the maximal runs of non-whitespace characters
RECURSIVE split(_)
split(text) ==
    LET t == StripLeft(text)
    IN  IF t = <<>> THEN <<>>
        ELSE LET n == CHOOSE i \in 1..(Len(t) + 1) :
                          /\ i = Len(t) + 1 \/ IsSpace(t[i])
                          /\ \A j \in 1..(i - 1) : ~IsSpace(t[j])
             IN  <<SubSeq(t, 1, n - 1)>> \o split(SubSeq(t, n, Len(t)))

\* " ".join(words)
RECURSIVE join(_)
join(words) ==
    IF words = <<>> THEN <<>>
    ELSE IF Len(words) = 1 THEN words[1]
    ELSE words[1] \o <<" ">> \o join(Tail(words))

\* A mutant of generate_cache_key: the text is not lower-cased.
generate_cache_key_case_sensitive(text) == join(split(Strip(text)))

\* _generate_cache_key: the SHA-256 digest of the normalized text.  The digest
\* is taken as injective, so a key is represented by the text it digests.
generate_cache_key(text) == join(split(Strip(Lower(text))))

\* CacheEntry(question_hash, question_text, response) created at time at
CacheEntry(key, text, resp, at) ==
    [question_hash |-> key, question_text |-> text, response |-> resp,
     hit_count |-> 0, created_at |-> at, last_accessed |-> at]

\* A mutant of access: the hit is counted twice.
access_counts_twice(entry, at) ==
    [entry EXCEPT !.hit_count = @ + 2, !.last_accessed = at]

\* CacheEntry.access
access(entry, at) ==
    [entry EXCEPT !.hit_count = @ + 1, !.last_accessed = at]

\* A mutant of is_expired: the age is measured from the last access.
is_expired_since_access(entry, at) ==
    IF ttl_seconds <= 0 THEN FALSE ELSE at - entry.last_accessed > ttl_seconds

\* _is_expired
is_expired(entry, at) ==
    IF ttl_seconds <= 0 THEN FALSE ELSE at - entry.created_at > ttl_seconds

\* the keys of the OrderedDict
Keys(c) == {c[i].question_hash : i \in DOMAIN c}

\* the position of key k in the OrderedDict
IndexOf(c, k) == CHOOSE i \in DOMAIN c : c[i].question_hash = k

\* del self._cache[key], by position
Remove(c, i) == SubSeq(c, 1, i - 1) \o SubSeq(c, i + 1, Len(c))

\* A mutant of move_to_end: the entry keeps its position.
move_to_end_stays(c, i) == c

\* OrderedDict.move_to_end
move_to_end(c, i) == Remove(c, i) \o <<c[i]>>

\* _evict_lru: popitem(last=False)
evict_lru(c) == IF c # <<>> THEN Tail(c) ELSE c

\* A mutant of evict_while_full: room is made only above max_size.
RECURSIVE evict_while_above(_)
evict_while_above(c) ==
    IF Len(c) > max_size THEN evict_while_above(evict_lru(c)) ELSE c

\* the loop "while len(self._cache) >= self.max_size: self._evict_lru()"
RECURSIVE evict_while_full(_)
evict_while_full(c) ==
    IF Len(c) >= max_size THEN evict_while_full(evict_lru(c)) ELSE c

\* self._cache[cache_key] = entry; self._cache.move_to_end(cache_key)
store(c, entry) ==
    IF entry.question_hash \in Keys(c)
    THEN LET i == IndexOf(c, entry.question_hash)
         IN  move_to_end([c EXCEPT ![i] = entry], i)
    ELSE Append(c, entry)

\* the cache key of each argument text
CacheKey == [text \in CacheTexts |-> generate_cache_key(text)]

CacheKeys == {CacheKey[text] : text \in CacheTexts}

\* no operation has completed yet
NoOp ==
    [op |-> "None", text |-> <<>>, key |-> <<>>, response |-> NoneValue,
     ret |-> NoneValue]

\* ResponseCache.__init__: an empty OrderedDict and zeroed statistics
ResponseCacheNew ==
    /\ cache = <<>>
    /\ stats = [hits |-> 0, misses |-> 0, evictions |-> 0, ttl_expires |-> 0,
                total_requests |-> 0]
    /\ now = 0
    /\ ops = 0
    /\ last_op = NoOp
    /\ recent = <<>>
    /\ last_use = [key \in CacheKeys |-> 0]

\* ------------------------------------------------------------- worker pool
\* src/src/worker_pool.py, class WorkerPool.  The pool takes no lock around
\* its task bookkeeping, so the worker function _process_question_worker is
\* a sequence of steps that interleave with the callers' threads.

max_workers == 2           \* WorkerPool(max_workers=...)
MAX_QUEUE_SIZE == 2        \* Config.MAX_QUEUE_SIZE of the deployment
MaxTasks == 3              \* tasks created in one behaviour
MaxBatch == 2              \* questions in one submit_batch call
MaxShutdowns == 1          \* shutdown calls in one behaviour
MaxWaitIds == 2            \* task ids passed to one wait_for_completion call

\* the history caps of _move_to_completed and _move_to_failed
completed_cap == 1000
completed_keep == 500
failed_cap == 100
failed_keep == 50

TaskIds == 1..MaxTasks

\* WorkerTask(task_id, question): completed_at is 0 for None, and otherwise
\* counts the assignments datetime.now() has made to it, since two readings
\* of the clock differ; result and error are "None" until set.
WorkerTask ==
    [started_at |-> FALSE, completed_at |-> 0, worker_id |-> 0,
     result |-> "None", error |-> "None"]

\* no submit_batch call is in progress
NoBatch ==
    [status |-> "idle", total |-> 0, attempted |-> 0, task_ids |-> <<>>,
     returned |-> <<>>]

\* a task id the pool never handed out
UnknownId == 0

\* no wait_for_completion call is in progress
NoWait ==
    [status |-> "idle", passed |-> <<>>, timeout |-> FALSE, task_ids |-> <<>>,
     position |-> 0, still_pending |-> <<>>, completed |-> <<>>,
     failed |-> <<>>, timed_out |-> <<>>]

\* WorkerPool.__init__; no caller is waiting
WorkerPoolNew ==
    /\ tasks = [t \in TaskIds |-> WorkerTask]
    /\ active_tasks = {}
    /\ completed_tasks = <<>>
    /\ failed_tasks = <<>>
    /\ worker_pc = [t \in TaskIds |-> "none"]
    /\ shutdown_flag = FALSE
    /\ executor_shutdown = FALSE
    /\ next_worker_id = 1
    /\ total_tasks_processed = 0
    /\ worker_stats = <<>>
    /\ loaded_total = [t \in TaskIds |-> 0]
    /\ kept_slice = [t \in TaskIds |-> <<>>]
    /\ batch = NoBatch
    /\ calls = [accepted |-> 0, rejected |-> FALSE, shutdowns |-> 0,
                shutdown_wait_ended |-> FALSE]
    /\ waiting = NoWait

\* SupportWorkflow() of src/src/workflow.py: no question is being processed
NoGraphState ==
    [pc |-> "idle", node |-> "validate_input", error |-> "None",
     classification |-> NoneValue, final_response |-> "None",
     steps_completed |-> <<>>, classifier_calls |-> 0, handler_calls |-> 0]

SupportWorkflowNew == graph_state = NoGraphState

\* The ticket fields process puts in initial_state, before process is called.
InitialState ==
    /\ pc = "idle"
    /\ node = "initialize"
    /\ steps = 0
    /\ visited = {}
    /\ classify_calls = 0
    /\ generate_calls = 0
    /\ result = NoneValue
    /\ ticket_id = ""
    /\ status = "new"
    /\ priority = "medium"
    /\ classification = NoneValue
    /\ requires_escalation = FALSE
    /\ escalation_info = NoneValue
    /\ response = NoneValue
    /\ errors = <<>>
    /\ retry_count = 0
    /\ should_continue = TRUE
    /\ next_action = "None"
    /\ quality_check = NoneValue
    /\ api_calls_made = 0

\* ConversationContext(): a context no ticket has been processed with
NewContext ==
    /\ user_sentiment = "None"
    /\ previous_interactions = <<>>

\* the first ticket of a session
InitialTicket == InitialState /\ NewContext

\* a session in which EarlierTickets tickets were finalized before
EarlierTickets == 1
EarlierInteractions ==
    [i \in 1..EarlierTickets |-> [category |-> "general", status |-> "processing"]]

\* The state before process is called: the caller owns a ConversationContext
\* (default, or with a customer tier set) and passes a question.
Init ==
    /\ InitialTicket
    /\ question \in Questions
    /\ customer_tier \in CustomerTiers
    /\ ResponseCacheNew
    /\ WorkerPoolNew
    /\ SupportWorkflowNew

\* ------------------------------------------------- conditional edge routers

should_continue_after_validation(cont, errs) ==
    IF cont /\ errs = <<>> THEN "continue" ELSE "error"

\* a retry bound that is off by one
should_continue_after_classification_off_by_one(errs, rc) ==
    IF errs # <<>> /\ rc > max_retries THEN "error"
    ELSE IF errs # <<>> THEN "retry"
    ELSE "continue"

should_continue_after_classification(errs, rc) ==
    IF errs # <<>> /\ rc >= max_retries THEN "error"
    ELSE IF errs # <<>> THEN "retry"
    ELSE "continue"

\* a router that looks at the confidence only
confidence_routing_ignores_flag(req, cls) ==
    IF cls # NoneValue /\ cls.confidence >= confidence_threshold
    THEN "high_confidence"
    ELSE "low_confidence"

confidence_routing(req, cls) ==
    IF req THEN "needs_human"
    ELSE IF cls # NoneValue /\ cls.confidence >= confidence_threshold
         THEN "high_confidence"
         ELSE "low_confidence"

\* a retry bound that is off by one
should_continue_after_response_off_by_one(errs, rc) ==
    IF errs # <<>> /\ rc > max_retries THEN "error"
    ELSE IF errs # <<>> THEN "retry"
    ELSE "continue"

should_continue_after_response(errs, rc) ==
    IF errs # <<>> /\ rc >= max_retries THEN "error"
    ELSE IF errs # <<>> THEN "retry"
    ELSE "continue"

quality_check_routing(na) ==
    IF na = "retry" THEN "needs_improvement"
    ELSE IF na = "escalate" THEN "escalate"
    ELSE "approved"

\* the edge maps of _build_workflow
EdgeTarget(from, label) ==
    CASE from = "validate_input" ->
            (IF label = "continue" THEN "analyze_sentiment" ELSE "handle_error")
      [] from = "classify_question" ->
            (CASE label = "continue" -> "check_confidence"
               [] label = "retry" -> "classify_question"
               [] label = "error" -> "handle_error")
      [] from = "check_confidence" ->
            (IF label = "high_confidence" THEN "route_to_specialist"
             ELSE "escalate_to_human")
      [] from = "generate_response" ->
            (CASE label = "continue" -> "quality_check"
               [] label = "retry" -> "generate_response"
               [] label = "error" -> "handle_error")
      [] from = "quality_check" ->
            (CASE label = "approved" -> "finalize_response"
               [] label = "needs_improvement" -> "generate_response"
               [] label = "escalate" -> "escalate_to_human")

\* One node execution of the compiled graph: the node named n runs when it is
\* the next node and the recursion limit is not used up.
Runs(n) ==
    /\ pc = "running"
    /\ node = n
    /\ steps < RecursionLimit
    /\ steps' = steps + 1
    /\ visited' = visited \cup {n}
    /\ UNCHANGED <<pc, result, service_vars>>

\* ---------------------------------------------------------------- actions

\* process: build initial_state around the question and the caller's
\* context, and enter workflow.invoke.
Process ==
    /\ pc = "idle"
    /\ pc' = "running"
    /\ node' = "initialize"
    /\ steps' = 0
    /\ visited' = {}
    /\ classify_calls' = 0
    /\ generate_calls' = 0
    /\ result' = NoneValue
    /\ ticket_id' = ""
    /\ status' = "new"
    /\ priority' = "medium"
    /\ classification' = NoneValue
    /\ requires_escalation' = FALSE
    /\ escalation_info' = NoneValue
    /\ response' = NoneValue
    /\ errors' = <<>>
    /\ retry_count' = 0
    /\ should_continue' = TRUE
    /\ next_action' = "None"
    /\ quality_check' = NoneValue
    /\ api_calls_made' = 0
    /\ UNCHANGED <<question, context, service_vars>>

initialize_node ==
    /\ Runs("initialize")
    /\ ticket_id' = "TICKET"
    /\ status' = "new"
    /\ priority' = "medium"
    /\ requires_escalation' = FALSE
    /\ errors' = <<>>
    /\ quality_check' = NoneValue
    /\ retry_count' = 0
    /\ should_continue' = TRUE
    /\ api_calls_made' = 0
    /\ node' = "validate_input"
    /\ UNCHANGED <<classify_calls, generate_calls, question, classification, escalation_info, response,
                   next_action, context>>

\* the mild urgency words assigning LOW instead of MEDIUM
validated_priority_mild_low(text_lower, prio) ==
    LET after_keywords ==
            IF \E k \in escalation_keywords : Contains(text_lower, k)
            THEN "high" ELSE prio
    IN  IF \E w \in urgent_words : Contains(text_lower, w) THEN "high"
        ELSE IF \E w \in mild_urgency_words : Contains(text_lower, w) THEN "low"
        ELSE after_keywords

\* the priority _validate_input_node leaves, for the lowered text and the
\* priority on entry: the escalation keywords first, then the urgency words
validated_priority(text_lower, prio) ==
    LET after_keywords ==
            IF \E k \in escalation_keywords : Contains(text_lower, k)
            THEN "high" ELSE prio
    IN  IF \E w \in urgent_words : Contains(text_lower, w) THEN "high"
        ELSE IF \E w \in mild_urgency_words : Contains(text_lower, w) THEN "medium"
        ELSE after_keywords

\* the basic validation of _validate_input_node: the text is rejected when
\* it is empty or its stripped length is under 3
too_short(text) == text = <<>> \/ Len(Strip(text)) < 3

validate_input_node ==
    /\ Runs("validate_input")
    /\ LET text == QuestionTexts[question]
           text_lower == Lower(text)
           escalation_detected ==
               \E k \in escalation_keywords : Contains(text_lower, k)
       IN  IF too_short(text)
           THEN /\ errors' = Append(errors, "Question too short")
                /\ should_continue' = FALSE
                /\ UNCHANGED <<requires_escalation, priority, escalation_info, status>>
           ELSE /\ requires_escalation' = (requires_escalation \/ escalation_detected)
                /\ escalation_info' =
                       IF escalation_detected
                       THEN [kind |-> "EscalationInfo", reason |-> "manual_request",
                             suggested_department |-> "customer_relations",
                             human_agent_required |-> TRUE]
                       ELSE escalation_info
                /\ priority' = validated_priority(text_lower, priority)
                /\ status' = "classified"
                /\ UNCHANGED <<errors, should_continue>>
    /\ node' = EdgeTarget("validate_input",
                          should_continue_after_validation(should_continue', errors'))
    /\ UNCHANGED <<classify_calls, generate_calls, question, ticket_id,
                   classification, response, retry_count, next_action,
                   quality_check, api_calls_made, context>>

negative_count(text) == Cardinality({w \in negative_words : Contains(text, w)})
positive_count(text) == Cardinality({w \in positive_words : Contains(text, w)})

analyze_sentiment_node ==
    /\ Runs("analyze_sentiment")
    /\ LET text == Lower(QuestionTexts[question])
           neg == negative_count(text)
           pos == positive_count(text)
       IN  /\ user_sentiment' = IF neg > pos THEN "negative"
                                ELSE IF pos > neg THEN "positive"
                                ELSE "neutral"
           /\ IF neg > pos /\ neg >= 2
              THEN /\ priority' = "high"
                   /\ requires_escalation' = TRUE
                   /\ escalation_info' =
                          [kind |-> "EscalationInfo", reason |-> "sentiment_negative",
                           suggested_department |-> "customer_relations",
                           human_agent_required |-> FALSE]
              ELSE UNCHANGED <<priority, requires_escalation, escalation_info>>
    /\ node' = "classify_question"
    /\ UNCHANGED <<classify_calls, generate_calls, question, ticket_id, status,
                   classification, response, errors, retry_count, should_continue,
                   next_action, quality_check, api_calls_made, customer_tier,
                   previous_interactions>>

\* one call of the classification port: it raises, or returns a result
classify_question_node ==
    /\ Runs("classify_question")
    /\ classify_calls' = classify_calls + 1
    /\ \/ /\ errors' = Append(errors, "Classification error")
          /\ retry_count' = retry_count + 1
          /\ UNCHANGED <<classification, api_calls_made>>
       \/ /\ \E c \in ClassificationResults : classification' = c
          /\ api_calls_made' = api_calls_made + 1
          /\ UNCHANGED <<errors, retry_count>>
    /\ node' = EdgeTarget("classify_question",
                          should_continue_after_classification(errors', retry_count'))
    /\ UNCHANGED <<generate_calls, question, ticket_id, status, priority,
                   requires_escalation, escalation_info, response, should_continue,
                   next_action, quality_check, context>>

\* the threshold _check_confidence_node compares with, adjusted by tier
tier_threshold(tier) ==
    IF tier = "enterprise" THEN (confidence_threshold * 90) \div 100
    ELSE IF tier = "premium" THEN (confidence_threshold * 95) \div 100
    ELSE confidence_threshold

check_confidence_node ==
    /\ Runs("check_confidence")
    /\ IF classification = NoneValue
       THEN /\ requires_escalation' = TRUE
            /\ UNCHANGED escalation_info
       ELSE IF classification.confidence < tier_threshold(customer_tier)
       THEN /\ requires_escalation' = TRUE
            /\ escalation_info' =
                   [kind |-> "EscalationInfo", reason |-> "low_confidence",
                    suggested_department |-> classification.category,
                    human_agent_required |-> FALSE]
       ELSE UNCHANGED <<requires_escalation, escalation_info>>
    /\ node' = EdgeTarget("check_confidence",
                          confidence_routing(requires_escalation', classification))
    /\ UNCHANGED <<classify_calls, generate_calls, question, ticket_id, status,
                   priority, classification, response, errors, retry_count,
                   should_continue, next_action, quality_check, api_calls_made,
                   context>>

route_to_specialist_node ==
    /\ Runs("route_to_specialist")
    /\ status' = "routed"
    /\ node' = "generate_response"
    /\ UNCHANGED <<classify_calls, generate_calls, question, ticket_id, priority,
                   classification, requires_escalation, escalation_info, response,
                   errors, retry_count, should_continue, next_action,
                   quality_check, api_calls_made, context>>

\* one call of the generation port: it raises, or returns a response
generate_response_node ==
    /\ Runs("generate_response")
    /\ IF classification = NoneValue
       THEN /\ errors' = Append(errors,
                         "No classification available for response generation")
            /\ UNCHANGED <<generate_calls, response, retry_count, status,
                           api_calls_made>>
       ELSE /\ generate_calls' = generate_calls + 1
            /\ \/ /\ errors' = Append(errors, "Response generation error")
                  /\ retry_count' = retry_count + 1
                  /\ UNCHANGED <<response, status, api_calls_made>>
               \/ /\ \E r \in HandlerResponses : response' = r
                  /\ api_calls_made' = api_calls_made + 1
                  /\ status' = "processing"
                  /\ UNCHANGED <<errors, retry_count>>
    /\ node' = EdgeTarget("generate_response",
                          should_continue_after_response(errors', retry_count'))
    /\ UNCHANGED <<classify_calls, question, ticket_id, priority, classification,
                   requires_escalation, escalation_info, should_continue,
                   next_action, quality_check, context>>

\* the score _quality_check_node gives a message for a category, in tenths
quality_score(msg, category) ==
    10 - (IF msg.length < 20 THEN 3 ELSE IF msg.length > 1000 THEN 2 ELSE 0)
       - (IF msg.generic THEN 1 ELSE 0)
       - (IF category \in msg.keywords THEN 0 ELSE 2)

\* a quality threshold of 0.5 instead of 0.6
quality_next_action_half(score, rc) ==
    IF score < 5
    THEN (IF rc < max_retries THEN "retry" ELSE "escalate")
    ELSE "approve"

\* "Determine next action based on quality"
quality_next_action(score, rc) ==
    IF score < 6
    THEN (IF rc < max_retries THEN "retry" ELSE "escalate")
    ELSE "approve"

quality_check_node ==
    /\ Runs("quality_check")
    /\ IF response = NoneValue
       THEN UNCHANGED <<quality_check, next_action>>
       ELSE LET score == quality_score(response, classification.category)
            IN  /\ quality_check' = [kind |-> "quality_check", score |-> score]
                /\ next_action' = quality_next_action(score, retry_count)
    /\ node' = EdgeTarget("quality_check", quality_check_routing(next_action'))
    /\ UNCHANGED <<classify_calls, generate_calls, question, ticket_id, status,
                   priority, classification, requires_escalation, escalation_info,
                   response, errors, retry_count, should_continue, api_calls_made,
                   context>>

escalate_to_human_node ==
    /\ Runs("escalate_to_human")
    /\ response' = escalation_response
    /\ status' = "escalated"
    /\ node' = "finalize_response"
    /\ UNCHANGED <<classify_calls, generate_calls, question, ticket_id, priority,
                   classification, requires_escalation, escalation_info, errors,
                   retry_count, should_continue, next_action, quality_check,
                   api_calls_made, context>>

\* a finalize that leaves the context as it is
finalize_response_node_no_summary ==
    /\ Runs("finalize_response")
    /\ status' = "resolved"
    /\ node' = "END"
    /\ UNCHANGED <<classify_calls, generate_calls, question, ticket_id, priority,
                   classification, requires_escalation, escalation_info, response,
                   errors, retry_count, should_continue, next_action,
                   quality_check, api_calls_made, context>>

finalize_response_node ==
    /\ Runs("finalize_response")
    /\ previous_interactions' =
           Append(previous_interactions,
                  [category |-> IF classification # NoneValue
                                THEN classification.category ELSE "unknown",
                   status |-> status])
    /\ status' = "resolved"
    /\ node' = "END"
    /\ UNCHANGED <<classify_calls, generate_calls, question, ticket_id, priority,
                   classification, requires_escalation, escalation_info, response,
                   errors, retry_count, should_continue, next_action,
                   quality_check, api_calls_made, customer_tier, user_sentiment>>

handle_error_node ==
    /\ Runs("handle_error")
    /\ response' = error_response
    /\ status' = "failed"
    /\ node' = "END"
    /\ UNCHANGED <<classify_calls, generate_calls, question, ticket_id, priority,
                   classification, requires_escalation, escalation_info, errors,
                   retry_count, should_continue, next_action, quality_check,
                   api_calls_made, context>>

\* GraphState.from_workflow_result
from_workflow_result ==
    [kind |-> "GraphState",
     classification |-> classification,
     response |-> response,
     error |-> IF errors # <<>> THEN errors[1] ELSE "None",
     ticket_id |-> ticket_id,
     status |-> status,
     priority |-> priority,
     requires_escalation |-> requires_escalation,
     escalation_info |-> escalation_info,
     errors |-> errors]

\* the GraphState process builds in its except branch
exception_result ==
    [kind |-> "GraphState",
     classification |-> NoneValue,
     response |-> NoneValue,
     error |-> "Workflow error",
     ticket_id |-> "ERROR",
     status |-> "failed",
     priority |-> "medium",
     requires_escalation |-> FALSE,
     escalation_info |-> NoneValue,
     errors |-> <<"GraphRecursionError">>]

\* workflow.invoke returns at END and process converts the final state
ProcessReturn ==
    /\ pc = "running"
    /\ node = "END"
    /\ pc' = "returned"
    /\ result' = from_workflow_result
    /\ UNCHANGED <<node, steps, visited, classify_calls, generate_calls, ticket,
                   context, service_vars>>

\* workflow.invoke raises when the recursion limit is reached before END,
\* and process returns from its except branch
ProcessExcept ==
    /\ pc = "running"
    /\ node # "END"
    /\ steps >= RecursionLimit
    /\ pc' = "returned"
    /\ result' = exception_result
    /\ UNCHANGED <<node, steps, visited, classify_calls, generate_calls, ticket,
                   context, service_vars>>

Next ==
    \/ Process
    \/ initialize_node
    \/ validate_input_node
    \/ analyze_sentiment_node
    \/ classify_question_node
    \/ check_confidence_node
    \/ route_to_specialist_node
    \/ generate_response_node
    \/ quality_check_node
    \/ escalate_to_human_node
    \/ finalize_response_node
    \/ handle_error_node
    \/ ProcessReturn
    \/ ProcessExcept

Spec == Init /\ [][Next]_vars

\* A later ticket of a session: the caller passes the context that the
\* earlier tickets of the session were processed with.
InitSession ==
    /\ InitialState
    /\ question \in Questions
    /\ customer_tier \in CustomerTiers
    /\ user_sentiment = "neutral"
    /\ previous_interactions = EarlierInteractions
    /\ ResponseCacheNew
    /\ WorkerPoolNew
    /\ SupportWorkflowNew

SpecSession == InitSession /\ [][Next]_vars

\* ----------------------------------------------- response cache operations

\* one completed operation: its name, question text and key, response
\* argument and return value
Op(name, text, resp, ret) ==
    [op |-> name, text |-> text,
     key |-> IF text \in CacheTexts THEN CacheKey[text] ELSE <<>>,
     response |-> resp, ret |-> ret]

\* The bookkeeping of a completed operation: it is the last one, and its use
\* of a key ("put", "hit", or "other" when it stored and returned no entry)
\* is remembered with that of the operation before it.
Completes(operation, use) ==
    /\ ops < MaxOps
    /\ ops' = ops + 1
    /\ last_op' = operation
    /\ recent' = LET all == Append(recent, [use |-> use, key |-> operation.key])
                 IN  IF Len(all) > 2 THEN Tail(all) ELSE all
    /\ last_use' = IF use = "other" THEN last_use
                   ELSE [last_use EXCEPT ![operation.key] = ops + 1]

\* get(question): None for an absent or an expired entry, else the response
get ==
    \E text \in CacheTexts :
        LET cache_key == CacheKey[text]
        IN  /\ IF cache_key \notin Keys(cache)
               THEN /\ cache' = cache
                    /\ stats' = [stats EXCEPT !.total_requests = @ + 1,
                                               !.misses = @ + 1]
                    /\ Completes(Op("get", text, NoneValue, NoneValue),
                                 "other")
               ELSE LET i == IndexOf(cache, cache_key)
                        entry == cache[i]
                    IN  IF is_expired(entry, now)
                        THEN /\ cache' = Remove(cache, i)
                             /\ stats' = [stats EXCEPT !.total_requests = @ + 1,
                                                        !.ttl_expires = @ + 1,
                                                        !.misses = @ + 1]
                             /\ Completes(Op("get", text, NoneValue,
                                             NoneValue), "other")
                        ELSE /\ cache' = [move_to_end(cache, i) EXCEPT
                                             ![Len(cache)] = access(entry, now)]
                             /\ stats' = [stats EXCEPT !.total_requests = @ + 1,
                                                        !.hits = @ + 1]
                             /\ Completes(Op("get", text, NoneValue,
                                             entry.response), "hit")
            /\ UNCHANGED <<now, outside_cache>>

\* A mutant of put: the entries it evicts are not counted.
put_uncounted ==
    \E text \in CacheTexts :
        LET cache_key == CacheKey[text]
            resp == NewResponse(ops + 1)
            entry == CacheEntry(cache_key, text, resp, now)
            room == evict_while_full(cache)
        IN  /\ cache' = store(room, entry)
            /\ Completes(Op("put", text, resp, NoneValue), "put")
            /\ UNCHANGED <<stats, now, outside_cache>>

\* put(question, response)
put ==
    \E text \in CacheTexts :
        LET cache_key == CacheKey[text]
            resp == NewResponse(ops + 1)
            entry == CacheEntry(cache_key, text, resp, now)
            room == evict_while_full(cache)
        IN  /\ cache' = store(room, entry)
            /\ stats' = [stats EXCEPT !.evictions = @ + Len(cache) - Len(room)]
            /\ Completes(Op("put", text, resp, NoneValue), "put")
            /\ UNCHANGED <<now, outside_cache>>

\* invalidate(question): True when an entry was removed
invalidate ==
    \E text \in CacheTexts :
        LET cache_key == CacheKey[text]
            found == cache_key \in Keys(cache)
        IN  /\ cache' = IF found THEN Remove(cache, IndexOf(cache, cache_key))
                        ELSE cache
            /\ Completes(Op("invalidate", text, NoneValue, found), "other")
            /\ UNCHANGED <<stats, now, outside_cache>>

\* cleanup_expired(): called by any thread and by the cleanup thread
cleanup_expired ==
    LET live(entry) == ~is_expired(entry, now)
        kept == SelectSeq(cache, live)
        removed == Len(cache) - Len(kept)
    IN  /\ cache' = kept
        /\ stats' = [stats EXCEPT !.ttl_expires = @ + removed]
        /\ Completes(Op("cleanup_expired", <<>>, NoneValue, removed), "other")
        /\ UNCHANGED <<now, outside_cache>>

\* entries_by_hits[:n] removed: sorted is stable, so among equal hit counts
\* the entries nearest the LRU end go first
RECURSIVE remove_lowest_hits(_, _)
remove_lowest_hits(c, n) ==
    IF n = 0 \/ c = <<>> THEN c
    ELSE LET i == CHOOSE j \in DOMAIN c :
                      /\ \A m \in DOMAIN c : c[j].hit_count <= c[m].hit_count
                      /\ \A m \in 1..(j - 1) : c[m].hit_count > c[j].hit_count
         IN  remove_lowest_hits(Remove(c, i), n - 1)

\* optimize_cache(): called by any thread, and by the cleanup thread when the
\* cache is more than 90% full
optimize_cache ==
    LET fresh(entry) ==
            ~(entry.last_accessed < now - stale_after /\ entry.hit_count <= 1)
        kept == SelectSeq(cache, fresh)
        final == IF Len(kept) * 10 > max_size * 8
                 THEN remove_lowest_hits(kept, (Len(kept) * 2) \div 10)
                 ELSE kept
    IN  /\ cache' = final
        /\ Completes(Op("optimize_cache", <<>>, NoneValue,
                        Len(cache) - Len(final)), "other")
        /\ UNCHANGED <<stats, now, outside_cache>>

\* an hour passes
Tick ==
    /\ now < MaxTime
    /\ now' = now + 1
    /\ UNCHANGED <<cache, stats, ops, last_op, recent, last_use, outside_cache>>

\* A cache after construction; no ticket is being processed.
InitCache ==
    /\ InitialTicket
    /\ question = "cancel"
    /\ customer_tier = "standard"
    /\ ResponseCacheNew
    /\ WorkerPoolNew
    /\ SupportWorkflowNew

NextCache ==
    \/ get
    \/ put
    \/ invalidate
    \/ cleanup_expired
    \/ optimize_cache
    \/ Tick

SpecCache == InitCache /\ [][NextCache]_vars

\* -------------------------------------------------- worker pool operations

\* the tasks created so far; uuid4 gives each a fresh id
Created == {t \in TaskIds : worker_pc[t] # "none"}

\* the tasks a worker thread is executing
Running ==
    {t \in TaskIds :
        worker_pc[t] \in {"started", "completed", "failed", "trimming_completed",
                          "trimming_failed", "tracking", "moved"}}

\* the occurrences of task t in a history list
Occurrences(list, t) == Cardinality({i \in DOMAIN list : list[i] = t})

\* list[-n:]
LastItems(list, n) ==
    IF Len(list) <= n THEN list ELSE SubSeq(list, Len(list) - n + 1, Len(list))

\* _move_to_completed
move_to_completed(list, t) ==
    LET appended == Append(list, t)
    IN  IF Len(appended) > completed_cap
        THEN LastItems(appended, completed_keep) ELSE appended

\* _move_to_failed
move_to_failed(list, t) ==
    LET appended == Append(list, t)
    IN  IF Len(appended) > failed_cap
        THEN LastItems(appended, failed_keep) ELSE appended

\* WorkerTask.complete_processing
complete_processing(task) ==
    [task EXCEPT !.completed_at = @ + 1, !.result = "response"]

\* WorkerTask.fail_processing
fail_processing(task, error) ==
    [task EXCEPT !.completed_at = @ + 1, !.error = error]

\* submit_question past the shutdown check: the task is created, entered in
\* active_tasks and handed to the executor
Accepts(t) ==
    /\ t = Cardinality(Created) + 1
    /\ t \in TaskIds
    /\ tasks' = [tasks EXCEPT ![t] = WorkerTask]
    /\ active_tasks' = active_tasks \cup {t}
    /\ worker_pc' = [worker_pc EXCEPT ![t] = "queued"]

\* submit_question(question), called on its own
submit_question ==
    /\ IF shutdown_flag
       THEN /\ calls' = [calls EXCEPT !.rejected = TRUE]
            /\ UNCHANGED <<tasks, active_tasks, worker_pc>>
       ELSE /\ \E t \in TaskIds : Accepts(t)
            /\ calls' = [calls EXCEPT !.accepted = @ + 1]
    /\ UNCHANGED <<completed_tasks, failed_tasks, shutdown_flag,
                   executor_shutdown, next_worker_id, total_tasks_processed,
                   batch, outside_pool>>

\* submit_batch(questions) is entered with one to MaxBatch questions; one
\* batch is submitted in a behaviour
submit_batch ==
    /\ batch.status = "idle"
    /\ \E n \in 1..MaxBatch :
           batch' = [status |-> "running", total |-> n, attempted |-> 0,
                     task_ids |-> <<>>, returned |-> <<>>]
    /\ UNCHANGED <<calls, tasks, active_tasks, completed_tasks, failed_tasks,
                   worker_pc, shutdown_flag, executor_shutdown, next_worker_id,
                   total_tasks_processed, outside_pool>>

\* one iteration of the loop of submit_batch: submit_question is called for
\* the next question; its RuntimeError is not caught, so it ends the call and
\* the task_ids gathered so far are dropped with the frame
submit_batch_iteration ==
    /\ batch.status = "running"
    /\ batch.attempted < batch.total
    /\ IF shutdown_flag
       THEN /\ batch' = [batch EXCEPT !.status = "raised",
                                      !.attempted = @ + 1]
            /\ calls' = [calls EXCEPT !.rejected = TRUE]
            /\ UNCHANGED <<tasks, active_tasks, worker_pc>>
       ELSE /\ \E t \in TaskIds :
                   /\ Accepts(t)
                   /\ batch' = [batch EXCEPT !.attempted = @ + 1,
                                             !.task_ids = Append(@, t)]
            /\ calls' = [calls EXCEPT !.accepted = @ + 1]
    /\ UNCHANGED <<completed_tasks, failed_tasks, shutdown_flag,
                   executor_shutdown, next_worker_id, total_tasks_processed,
                   outside_pool>>

\* submit_batch returns task_ids after the last question
submit_batch_return ==
    /\ batch.status = "running"
    /\ batch.attempted = batch.total
    /\ batch' = [batch EXCEPT !.status = "returned", !.returned = batch.task_ids]
    /\ UNCHANGED <<calls, tasks, active_tasks, completed_tasks, failed_tasks,
                   worker_pc, shutdown_flag, executor_shutdown, next_worker_id,
                   total_tasks_processed, outside_pool>>

\* _update_worker_stats(worker_id, event)
update_worker_stats(by_worker, worker_id, event) ==
    IF worker_id \notin DOMAIN by_worker THEN by_worker
    ELSE CASE event = "task_completed" ->
                 [by_worker EXCEPT ![worker_id].tasks_completed = @ + 1]
           [] event = "task_failed" ->
                 [by_worker EXCEPT ![worker_id].tasks_failed = @ + 1]
           [] OTHER -> by_worker

\* a worker function started for a queued task whatever the number of
\* running workers: an executor without its max_workers limit
start_processing_unbounded ==
    \E t \in TaskIds :
        /\ worker_pc[t] = "queued"
        /\ tasks' = [tasks EXCEPT ![t].started_at = TRUE,
                                  ![t].worker_id = next_worker_id]
        /\ next_worker_id' = next_worker_id + 1
        /\ worker_stats' =
               update_worker_stats(
                   IF next_worker_id \in DOMAIN worker_stats THEN worker_stats
                   ELSE Append(worker_stats,
                               [tasks_completed |-> 0, tasks_failed |-> 0]),
                   next_worker_id, "task_started")
        /\ worker_pc' = [worker_pc EXCEPT ![t] = "started"]
        /\ UNCHANGED <<active_tasks, completed_tasks, failed_tasks,
                       shutdown_flag, executor_shutdown, total_tasks_processed,
                       loaded_total, kept_slice, batch, calls, outside_worker>>

\* _process_question_worker is started on a free thread of the executor:
\* _get_worker_id, which takes the next id and enters it in worker_stats
\* under worker_lock, and task.start_processing
start_processing ==
    \E t \in TaskIds :
        /\ worker_pc[t] = "queued"
        /\ Cardinality(Running) < max_workers
        /\ tasks' = [tasks EXCEPT ![t].started_at = TRUE,
                                  ![t].worker_id = next_worker_id]
        /\ next_worker_id' = next_worker_id + 1
        /\ worker_stats' =
               update_worker_stats(
                   IF next_worker_id \in DOMAIN worker_stats THEN worker_stats
                   ELSE Append(worker_stats,
                               [tasks_completed |-> 0, tasks_failed |-> 0]),
                   next_worker_id, "task_started")
        /\ worker_pc' = [worker_pc EXCEPT ![t] = "started"]
        /\ UNCHANGED <<active_tasks, completed_tasks, failed_tasks,
                       shutdown_flag, executor_shutdown, total_tasks_processed,
                       loaded_total, kept_slice, batch, calls, outside_worker>>

\* the outcomes of self.workflow.process_question, as the worker tells them
\* apart; a result without final_response is handled as one with an error is
WorkflowOutcomes == {"final_response", "error", "raises"}

\* the error the worker records for an outcome
WorkerError(outcome) ==
    CASE outcome = "error" -> "Workflow error"
      [] outcome = "raises" -> "Worker error"

\* the workflow returns (or raises) and the worker marks the task:
\* task.complete_processing(response) or task.fail_processing(error)
process_question ==
    \E t \in TaskIds, outcome \in WorkflowOutcomes :
        /\ worker_pc[t] = "started"
        /\ IF outcome = "final_response"
           THEN /\ tasks' = [tasks EXCEPT ![t] = complete_processing(@)]
                /\ worker_pc' = [worker_pc EXCEPT ![t] = "completed"]
           ELSE /\ tasks' = [tasks EXCEPT
                                ![t] = fail_processing(@, WorkerError(outcome))]
                /\ worker_pc' = [worker_pc EXCEPT ![t] = "failed"]
        /\ UNCHANGED <<active_tasks, completed_tasks, failed_tasks,
                       shutdown_flag, executor_shutdown, next_worker_id,
                       total_tasks_processed, batch, calls, outside_pool>>

\* what the worker does after _move_to_completed: _update_performance_tracking
\* reads the total it is about to add one to (self.total_tasks_processed += 1
\* is a read and a write, with no lock)
after_move_to_completed(t) ==
    /\ loaded_total' = [loaded_total EXCEPT ![t] = total_tasks_processed]
    /\ worker_pc' = [worker_pc EXCEPT ![t] = "tracking"]
    /\ UNCHANGED worker_stats

\* what the worker does after _move_to_failed:
\* _update_worker_stats(worker_id, "task_failed")
after_move_to_failed(t) ==
    /\ worker_stats' = update_worker_stats(worker_stats,
                            tasks[t].worker_id, "task_failed")
    /\ worker_pc' = [worker_pc EXCEPT ![t] = "moved"]
    /\ UNCHANGED loaded_total

\* the worker appends the task to its history: _move_to_completed for a
\* completed task, _move_to_failed for a failed one.  No lock is held.  When
\* the appended list is longer than the cap, the worker reads the slice to
\* keep, list[-keep:], which is a new list; the assignment of that list to
\* the attribute is a later step of the thread (trim_history), so another
\* worker can append to the old list in between.
move_to_history ==
    \E t \in TaskIds :
        /\ worker_pc[t] \in {"completed", "failed"}
        /\ IF worker_pc[t] = "completed"
           THEN /\ IF Len(completed_tasks) + 1 > completed_cap
                   THEN /\ completed_tasks' = Append(completed_tasks, t)
                        /\ kept_slice' =
                               [kept_slice EXCEPT
                                   ![t] = LastItems(Append(completed_tasks, t),
                                                    completed_keep)]
                        /\ worker_pc' =
                               [worker_pc EXCEPT ![t] = "trimming_completed"]
                        /\ UNCHANGED <<loaded_total, worker_stats>>
                   ELSE /\ completed_tasks' =
                               move_to_completed(completed_tasks, t)
                        /\ after_move_to_completed(t)
                        /\ UNCHANGED kept_slice
                /\ UNCHANGED failed_tasks
           ELSE /\ IF Len(failed_tasks) + 1 > failed_cap
                   THEN /\ failed_tasks' = Append(failed_tasks, t)
                        /\ kept_slice' =
                               [kept_slice EXCEPT
                                   ![t] = LastItems(Append(failed_tasks, t),
                                                    failed_keep)]
                        /\ worker_pc' =
                               [worker_pc EXCEPT ![t] = "trimming_failed"]
                        /\ UNCHANGED <<loaded_total, worker_stats>>
                   ELSE /\ failed_tasks' = move_to_failed(failed_tasks, t)
                        /\ after_move_to_failed(t)
                        /\ UNCHANGED kept_slice
                /\ UNCHANGED completed_tasks
        /\ UNCHANGED <<tasks, active_tasks, shutdown_flag, executor_shutdown,
                       next_worker_id, total_tasks_processed, batch, calls,
                       outside_worker>>

\* self.completed_tasks = self.completed_tasks[-500:] and
\* self.failed_tasks = self.failed_tasks[-50:], the assignment: the slice
\* the worker read replaces the list, whatever was appended since
trim_history ==
    \E t \in TaskIds :
        /\ worker_pc[t] \in {"trimming_completed", "trimming_failed"}
        /\ IF worker_pc[t] = "trimming_completed"
           THEN /\ completed_tasks' = kept_slice[t]
                /\ after_move_to_completed(t)
                /\ UNCHANGED failed_tasks
           ELSE /\ failed_tasks' = kept_slice[t]
                /\ after_move_to_failed(t)
                /\ UNCHANGED completed_tasks
        /\ kept_slice' = [kept_slice EXCEPT ![t] = <<>>]
        /\ UNCHANGED <<tasks, active_tasks, shutdown_flag, executor_shutdown,
                       next_worker_id, total_tasks_processed, batch, calls,
                       outside_worker>>

\* the write of self.total_tasks_processed += 1, with the total the worker
\* read, and _update_worker_stats(worker_id, "task_completed")
update_performance_tracking ==
    \E t \in TaskIds :
        /\ worker_pc[t] = "tracking"
        /\ total_tasks_processed' = loaded_total[t] + 1
        /\ loaded_total' = [loaded_total EXCEPT ![t] = 0]
        /\ worker_stats' = update_worker_stats(worker_stats,
                                tasks[t].worker_id, "task_completed")
        /\ worker_pc' = [worker_pc EXCEPT ![t] = "moved"]
        /\ UNCHANGED <<tasks, active_tasks, completed_tasks, failed_tasks,
                       shutdown_flag, executor_shutdown, next_worker_id,
                       kept_slice, batch, calls, outside_worker>>

\* the finally clause of the worker: the task leaves active_tasks
remove_from_active ==
    \E t \in TaskIds :
        /\ worker_pc[t] = "moved"
        /\ active_tasks' = active_tasks \ {t}
        /\ worker_pc' = [worker_pc EXCEPT ![t] = "done"]
        /\ UNCHANGED <<tasks, completed_tasks, failed_tasks, shutdown_flag,
                       executor_shutdown, next_worker_id, total_tasks_processed,
                       batch, calls, outside_pool>>

\* pool.shutdown(wait=..., timeout=...) as main.py and __exit__ call it: the
\* attribute self.shutdown set in __init__ hides the method, so the call
\* applies a bool and raises TypeError before any statement of the method
shutdown_call ==
    \E wait \in BOOLEAN :
        /\ calls.shutdowns < MaxShutdowns
        /\ calls' = [calls EXCEPT
                        !.shutdowns = @ + 1,
                        !.shutdown_wait_ended = @ \/ wait]
        /\ UNCHANGED <<tasks, active_tasks, completed_tasks, failed_tasks,
                       worker_pc, shutdown_flag, executor_shutdown,
                       next_worker_id, total_tasks_processed, batch,
                       outside_pool>>

\* fail_processing("Shutdown requested") and _move_to_failed for every task
\* of active_tasks, in the order of the dictionary (insertion order)
RECURSIVE fail_active(_, _)
fail_active(state, remaining) ==
    IF remaining = {} THEN state
    ELSE LET t == CHOOSE x \in remaining : \A y \in remaining : x <= y
         IN  fail_active(
                 [tasks |-> [state.tasks EXCEPT
                                ![t] = fail_processing(@, "Shutdown requested")],
                  failed_tasks |-> move_to_failed(state.failed_tasks, t)],
                 remaining \ {t})

\* the body of the method shutdown, run by WorkerPool.shutdown(pool, ...):
\* with wait the executor rejects the keyword timeout (TypeError) after the
\* flag is set; without wait the active tasks are failed and left in
\* active_tasks, and the executor lets queued and running work go on
shutdown ==
    \E wait \in BOOLEAN :
        /\ calls.shutdowns < MaxShutdowns
        /\ shutdown_flag' = TRUE
        /\ IF wait
           THEN /\ calls' = [calls EXCEPT
                                !.shutdowns = @ + 1,
                                !.shutdown_wait_ended = TRUE]
                /\ UNCHANGED <<tasks, failed_tasks, executor_shutdown>>
           ELSE LET after == fail_active([tasks |-> tasks,
                                          failed_tasks |-> failed_tasks],
                                         active_tasks)
                IN  /\ tasks' = after.tasks
                    /\ failed_tasks' = after.failed_tasks
                    /\ executor_shutdown' = TRUE
                    /\ calls' = [calls EXCEPT !.shutdowns = @ + 1]
        /\ UNCHANGED <<active_tasks, completed_tasks, worker_pc,
                       next_worker_id, total_tasks_processed, batch,
                       outside_pool>>

\* A pool after construction; no ticket is being processed by the caller and
\* the cache is idle.
InitPool ==
    /\ InitialTicket
    /\ question = "cancel"
    /\ customer_tier = "standard"
    /\ ResponseCacheNew
    /\ WorkerPoolNew
    /\ SupportWorkflowNew

NextPool ==
    \/ submit_question
    \/ submit_batch
    \/ submit_batch_iteration
    \/ submit_batch_return
    \/ start_processing
    \/ process_question
    \/ move_to_history
    \/ update_performance_tracking
    \/ remove_from_active
    \/ shutdown_call
    \/ shutdown

SpecPool == InitPool /\ [][NextPool]_vars

\* ----------------------------------------------------- wait_for_completion

\* get_task_status(task_id)["status"], "None" when it returns None: a task
\* of active_tasks is answered from its own fields, any other from the
\* histories
get_task_status(task_id) ==
    IF task_id \in active_tasks
    THEN IF tasks[task_id].completed_at # 0 THEN "completed"
         ELSE IF tasks[task_id].started_at THEN "processing"
         ELSE "queued"
    ELSE IF \E i \in DOMAIN completed_tasks : completed_tasks[i] = task_id
         THEN "completed"
    ELSE IF \E i \in DOMAIN failed_tasks : failed_tasks[i] = task_id
         THEN "failed"
    ELSE "None"

\* the lists of one to MaxWaitIds different ids a caller can pass: ids the
\* pool has handed out and an id it has not
IdLists ==
    LET ids == Created \cup {UnknownId}
    IN  {l \in UNION {[1..n -> ids] : n \in 1..MaxWaitIds} :
            \A i, j \in DOMAIN l : i # j => l[i] # l[j]}

\* wait_for_completion(task_ids, timeout) is entered, with or without a
\* timeout; one call is made in a behaviour
wait_for_completion ==
    /\ waiting.status = "idle"
    /\ \E ids \in IdLists, timeout \in BOOLEAN :
           waiting' = [NoWait EXCEPT !.status = "polling", !.passed = ids,
                                     !.task_ids = ids, !.timeout = timeout]
    /\ UNCHANGED outside_caller

\* at the head of the loop the timeout is found to have elapsed: the ids
\* still waited for are reported as timed out and the call returns
wait_timed_out ==
    /\ waiting.status = "polling"
    /\ waiting.position = 0
    /\ waiting.timeout
    /\ waiting' = [waiting EXCEPT !.status = "returned",
                                  !.timed_out = waiting.task_ids]
    /\ UNCHANGED outside_caller

\* one iteration of the for loop: the status of the next id is read and the
\* id is filed; an id without a status is skipped
wait_check_status ==
    /\ waiting.status = "polling"
    /\ waiting.position < Len(waiting.task_ids)
    /\ LET task_id == waiting.task_ids[waiting.position + 1]
           found == get_task_status(task_id)
       IN  waiting' =
               [waiting EXCEPT
                   !.position = @ + 1,
                   !.completed = IF found = "completed"
                                 THEN Append(@, task_id) ELSE @,
                   !.failed = IF found = "failed"
                              THEN Append(@, task_id) ELSE @,
                   !.still_pending = IF found \in {"queued", "processing"}
                                     THEN Append(@, task_id) ELSE @]
    /\ UNCHANGED outside_caller

\* the end of a pass: task_ids = still_pending; the call returns when none
\* is left and sleeps before the next pass otherwise
wait_end_of_pass ==
    /\ waiting.status = "polling"
    /\ waiting.position = Len(waiting.task_ids)
    /\ waiting' = [waiting EXCEPT
                      !.status = IF waiting.still_pending = <<>>
                                 THEN "returned" ELSE "polling",
                      !.task_ids = waiting.still_pending,
                      !.still_pending = <<>>,
                      !.position = 0]
    /\ UNCHANGED outside_caller

\* a pool whose tasks are submitted one by one and worked off while a caller
\* waits for some of them
NextWait ==
    \/ submit_question
    \/ start_processing
    \/ process_question
    \/ move_to_history
    \/ update_performance_tracking
    \/ remove_from_active
    \/ wait_for_completion
    \/ wait_timed_out
    \/ wait_check_status
    \/ wait_end_of_pass

SpecWait == InitPool /\ [][NextWait]_vars

\* ------------------------------------------- the workflow a worker runs
\* src/src/workflow.py, SupportWorkflow.process_question: a graph of
\* validate_input, classify_question, route_to_handler, the three category
\* handlers, finalize_response and handle_error.  Every node gets the
\* dictionary the node before it returned.

\* the questions a UserQuestion can be built for: its __post_init__ strips
\* the text and raises for an empty one
UserQuestions == {q \in Questions : Strip(QuestionTexts[q]) # <<>>}

\* UserQuestion(text).text
question_text(q) == Strip(QuestionTexts[q])

\* the error _validate_input_node finds in a question text, or "None"
validation_error(text) ==
    IF text = <<>> THEN "Invalid or empty question"
    ELSE IF Len(Strip(text)) < 3 THEN "Question too short"
    ELSE IF Len(Strip(text)) > 1000 THEN "Question too long (max 1000 characters)"
    ELSE "None"

\* _route_question_decision
route_question_decision(st) ==
    IF st.error # "None" THEN "handle_error"
    ELSE IF st.classification = NoneValue THEN "handle_error"
    ELSE "route_to_handler"

\* _category_decision and the edge map of route_to_handler: the handler node
\* of the category
category_decision(st) ==
    IF st.error # "None" THEN "handle_error"
    ELSE IF st.classification = NoneValue THEN "handle_error"
    ELSE IF st.classification.category = "billing" THEN "handle_billing"
    ELSE IF st.classification.category = "technical" THEN "handle_technical"
    ELSE "handle_general"

\* one node execution of the graph: the node named n runs and is recorded in
\* workflow_metadata["steps_completed"]
Enters(n) ==
    /\ graph_state.pc = "running"
    /\ graph_state.node = n
    /\ UNCHANGED outside_graph

Entered(n) ==
    [graph_state EXCEPT !.steps_completed = Append(@, n)]

\* process_question(question, worker_id): initial_state is built and
\* graph.invoke is entered at validate_input
process_question_invoke ==
    /\ graph_state.pc = "idle"
    /\ graph_state' = [NoGraphState EXCEPT !.pc = "running"]
    /\ UNCHANGED outside_graph

graph_validate_input_node ==
    /\ Enters("validate_input")
    /\ graph_state' =
           [Entered("validate_input") EXCEPT
               !.error = IF validation_error(question_text(question)) # "None"
                         THEN validation_error(question_text(question)) ELSE @,
               !.node = "classify_question"]

\* one call of the classifier: it returns a result or raises
graph_classify_question_node ==
    /\ Enters("classify_question")
    /\ \E outcome \in ClassificationResults \cup {NoneValue} :
           LET after ==
                   [Entered("classify_question") EXCEPT
                       !.classifier_calls = @ + 1,
                       !.classification = IF outcome = NoneValue THEN @
                                          ELSE outcome,
                       !.error = IF outcome = NoneValue
                                 THEN "Classification error" ELSE @]
           IN  graph_state' = [after EXCEPT !.node = route_question_decision(after)]

graph_route_to_handler_node ==
    /\ Enters("route_to_handler")
    /\ LET after ==
               [Entered("route_to_handler") EXCEPT
                   !.error = IF graph_state.classification = NoneValue
                             THEN "No classification result available" ELSE @]
       IN  graph_state' = [after EXCEPT !.node = category_decision(after)]

\* _handle_category_node for the three handler nodes: one call of the
\* category's handler, which returns a response or raises
graph_handle_category_node ==
    \E n \in {"handle_billing", "handle_technical", "handle_general"},
       raises \in BOOLEAN :
        /\ Enters(n)
        /\ graph_state' =
               [Entered(n) EXCEPT
                   !.handler_calls = @ + 1,
                   !.final_response = IF raises THEN @ ELSE "handler",
                   !.error = IF raises THEN "Handler error" ELSE @,
                   !.node = "finalize_response"]

graph_finalize_response_node ==
    /\ Enters("finalize_response")
    /\ graph_state' = [Entered("finalize_response") EXCEPT !.node = "END"]

\* the fallback response is created if no response exists
graph_handle_error_node ==
    /\ Enters("handle_error")
    /\ graph_state' =
           [Entered("handle_error") EXCEPT
               !.final_response = IF @ = "None" THEN "fallback" ELSE @,
               !.node = "END"]

\* graph.invoke returns the final state and process_question returns it
process_question_return ==
    /\ Enters("END")
    /\ graph_state' = [graph_state EXCEPT !.pc = "returned"]

\* a worker is handed a question and runs process_question for it
InitGraph ==
    /\ InitialTicket
    /\ question \in UserQuestions
    /\ customer_tier = "standard"
    /\ ResponseCacheNew
    /\ WorkerPoolNew
    /\ SupportWorkflowNew

NextGraph ==
    \/ process_question_invoke
    \/ graph_validate_input_node
    \/ graph_classify_question_node
    \/ graph_route_to_handler_node
    \/ graph_handle_category_node
    \/ graph_finalize_response_node
    \/ graph_handle_error_node
    \/ process_question_return

SpecGraph == InitGraph /\ [][NextGraph]_vars

\* ------------------------------------------------------------------ claims

\* C1: process returns a ticket whose response is non-empty and whose status
\* is one of resolved, escalated, failed, whatever the ports do.
C1_ReturnsResponseAndTerminalStatus ==
    pc = "returned" =>
        /\ result.response # NoneValue
        /\ (result.response.origin = "handler" => result.response.length > 0)
        /\ result.status \in {"resolved", "escalated", "failed"}

\* C2: one process execution ends by reaching finalize_response or
\* handle_error, whatever the ports do: the graph run is not cut off with
\* the stage sequence still looping.
C2_EndsInFinalizeOrError ==
    pc = "returned" =>
        /\ node = "END"
        /\ visited \cap {"finalize_response", "handle_error"} # {}

\* C3: retry_count never exceeds max_retries, failures of classification
\* and of generation counted on the one counter.
C3_RetryCountBounded == retry_count <= max_retries

\* a ticket whose generation attempts used up the retry budget
C3_Witness ==
    /\ retry_count = max_retries
    /\ generate_calls >= max_retries
    /\ node = "handle_error"

\* the number of classification port calls that raised
classification_failures ==
    Len(SelectSeq(errors, LAMBDA e : e = "Classification error"))

\* C4: when the first max_retries classification calls all fail, the ticket
\* is returned failed with the fallback response, retry_count = max_retries,
\* exactly max_retries classification calls and no generation call.
C4_ClassificationExhausted ==
    (/\ pc = "returned"
     /\ classify_calls >= max_retries
     /\ classification_failures = classify_calls) =>
        /\ result.status = "failed"
        /\ result.response = error_response
        /\ retry_count = max_retries
        /\ classify_calls = max_retries
        /\ generate_calls = 0

C4_Witness ==
    /\ pc = "returned"
    /\ classify_calls = max_retries
    /\ classification_failures = max_retries
    /\ result.status = "failed"

\* C5: once requires_escalation is true it is true in every later state of
\* the ticket, and in the ticket process returns.
C5_EscalationNeverReset ==
    [][(pc = "running" /\ requires_escalation) =>
          /\ requires_escalation'
          /\ (pc' = "returned" => result'.requires_escalation)]_vars

C7_EscalatedReturnedEscalated ==
    (pc = "returned" /\ "escalate_to_human" \in visited) =>
        result.status = "escalated"

\* C8: a response scored under 0.6 is not what a ticket finalized without
\* escalation carries: after quality_check with a score under 0.6 the next
\* node is generate_response while retry_count < max_retries and
\* escalate_to_human otherwise, and finalize_response follows quality_check
\* only with a score of at least 0.6.
C8_LowQualityNeverFinalized ==
    /\ []((/\ "finalize_response" \in visited
           /\ "escalate_to_human" \notin visited) =>
              /\ response # NoneValue
              /\ response.origin = "handler"
              /\ quality_score(response, classification.category) >= 6)
    /\ [][(node = "quality_check" /\ steps' = steps + 1) =>
             LET score == quality_score(response', classification'.category)
             IN  /\ (score < 6 =>
                        node' = IF retry_count' < max_retries
                                THEN "generate_response"
                                ELSE "escalate_to_human")
                 /\ (node' = "finalize_response" => score >= 6)]_vars

\* a response was scored under 0.6 and is about to be regenerated
C8_Witness ==
    /\ quality_check # NoneValue
    /\ quality_check.score < 6
    /\ node = "generate_response"
    /\ generate_calls >= 1

\* C9: a question whose stripped text is shorter than 3 or longer than 1000
\* characters goes from validate_input to handle_error: it is returned
\* failed, no port is called and retry_count stays 0.
C9_LengthBoundsRejected ==
    LET n == Len(Strip(QuestionTexts[question]))
    IN  ((n < 3 \/ n > 1000) /\ "validate_input" \in visited) =>
            /\ visited \subseteq {"initialize", "validate_input", "handle_error"}
            /\ node \in {"handle_error", "END"}
            /\ classify_calls = 0
            /\ generate_calls = 0
            /\ retry_count = 0
            /\ (pc = "returned" => result.status = "failed")

\* C10: the question "THIS IS UNACCEPTABLE, get me a manager now, I'm
\* furious" is returned with requires_escalation, priority high, status
\* escalated and the human-handoff response.
C10_ManagerQuestionEscalated ==
    (pc = "returned" /\ question = "manager") =>
        /\ result.requires_escalation
        /\ result.priority = "high"
        /\ result.status = "escalated"
        /\ result.response = escalation_response

\* C11: after every completed cache operation (get, put, invalidate,
\* cleanup_expired, optimize_cache, in any order and from any thread) the
\* cache stores at most max_size entries.
C11_SizeBounded == Len(cache) <= max_size

\* a put that had to evict has completed and the cache is full
C11_Witness ==
    /\ last_op.op = "put"
    /\ stats.evictions > 0
    /\ Len(cache) = max_size

\* the key in the cache whose latest put or get hit is the oldest
LeastRecentlyUsed ==
    CHOOSE key \in Keys(cache) :
        \A other \in Keys(cache) : last_use[key] <= last_use[other]

\* the uses made by the last n operations
LastUses(n) == SubSeq(recent, Len(recent) - n + 1, Len(recent))

\* the keys of the scenario
KeyA == CacheKey[TReset]
KeyB == CacheKey[TBilling]
KeyC == CacheKey[TRefund]

\* C12: a put of a key that is not present into a cache holding max_size
\* entries evicts exactly one entry, the one whose latest put or get hit is
\* the oldest.  With max_size = 2: after put A, put B, a put C leaves exactly
\* B and C; and after put B and a get hit of A (so after put A, put B,
\* get A), a put C leaves exactly A and C.
C12_EvictsLeastRecentlyUsed ==
    /\ [][(/\ ops' = ops + 1
           /\ last_op'.op = "put"
           /\ last_op'.key \notin Keys(cache)
           /\ Len(cache) = max_size)
          => /\ Keys(cache') =
                    (Keys(cache) \ {LeastRecentlyUsed}) \cup {last_op'.key}
             /\ Len(cache') = max_size
             /\ stats'.evictions = stats.evictions + 1]_vars
    /\ [][(/\ ops' = ops + 1
           /\ last_op'.op = "put"
           /\ last_op'.key = KeyC
           /\ max_size = 2
           /\ Len(recent) >= 2
           /\ LastUses(2) = <<[use |-> "put", key |-> KeyA],
                              [use |-> "put", key |-> KeyB]>>)
          => Keys(cache') = {KeyB, KeyC}]_vars
    /\ [][(/\ ops' = ops + 1
           /\ last_op'.op = "put"
           /\ last_op'.key = KeyC
           /\ max_size = 2
           /\ Len(recent) >= 2
           /\ LastUses(2) = <<[use |-> "put", key |-> KeyB],
                              [use |-> "hit", key |-> KeyA]>>)
          => Keys(cache') = {KeyA, KeyC}]_vars

\* put A, put B, get A, put C has just completed on a cache of max_size
\* entries: B was evicted, A and C are stored
C12_Witness ==
    /\ ops = 4
    /\ Len(cache) = max_size
    /\ LastUses(2) = <<[use |-> "hit", key |-> KeyA],
                       [use |-> "put", key |-> KeyC]>>
    /\ last_use[KeyB] > 0
    /\ stats.evictions = 1
    /\ Keys(cache) = {KeyA, KeyC}

\* two question texts with the same normalized text: the same words, up to
\* letter case, separated by any whitespace
SameNormalizedText(t1, t2) == split(Lower(t1)) = split(Lower(t2))

\* the positions in cache c of the entries stored for the text of a question
EntriesFor(c, text) ==
    {i \in DOMAIN c : SameNormalizedText(c[i].question_text, text)}

\* C13: a get that is the next cache operation after a put of the same
\* normalized text returns the response that put stored (whether or not the
\* key had an entry before the put), unless the stored entry is by then older
\* than the TTL.
C13_GetAfterPut ==
    [][(/\ ops' = ops + 1
        /\ last_op'.op = "get"
        /\ last_op.op = "put"
        /\ SameNormalizedText(last_op'.text, last_op.text))
       => \/ last_op'.ret = last_op.response
          \/ \E i \in EntriesFor(cache, last_op.text) :
                ttl_seconds > 0 /\ now - cache[i].created_at > ttl_seconds]_vars

\* a put was followed by a get made with a differently written text, which
\* returned the response just stored
C13_Witness ==
    /\ Len(recent) >= 2
    /\ LastUses(2) = <<[use |-> "put", key |-> KeyA],
                       [use |-> "hit", key |-> KeyA]>>
    /\ last_op.op = "get"
    /\ last_op.text = TReset
    /\ cache[Len(cache)].question_text = TResetSpaced
    /\ last_op.ret = cache[Len(cache)].response

\* C14: a get for an entry created more than the TTL ago returns a miss,
\* removes the entry and counts one TTL expiry and one miss; a get changes no
\* entry's creation time, so hits do not extend an entry's life.
C14_ExpiredNeverReturned ==
    [][(ops' = ops + 1 /\ last_op'.op = "get")
       => /\ \A i \in EntriesFor(cache, last_op'.text) :
                (ttl_seconds > 0 /\ now - cache[i].created_at > ttl_seconds)
                => /\ last_op'.ret = NoneValue
                   /\ EntriesFor(cache', last_op'.text) = {}
                   /\ Len(cache') = Len(cache) - 1
                   /\ stats'.ttl_expires = stats.ttl_expires + 1
                   /\ stats'.misses = stats.misses + 1
                   /\ stats'.hits = stats.hits
          /\ \A j \in DOMAIN cache' : \E i \in DOMAIN cache :
                /\ cache[i].question_hash = cache'[j].question_hash
                /\ cache[i].created_at = cache'[j].created_at]_vars

\* an entry was hit within its TTL and then found expired by the next get
C14_Witness ==
    /\ Len(recent) >= 2
    /\ LastUses(2) = <<[use |-> "hit", key |-> KeyA],
                       [use |-> "other", key |-> KeyA]>>
    /\ last_op.op = "get"
    /\ last_op.ret = NoneValue
    /\ stats.ttl_expires = 1
    /\ stats.misses = 1
    /\ KeyA \notin Keys(cache)

\* the entry of cache c stored under key
EntryOf(c, key) == c[IndexOf(c, key)]

\* C15: a get hit returns the stored response and changes nothing of the
\* cache's contents but the hit entry's hit_count, which grows by exactly 1,
\* and its last_accessed: the keys, the stored response and every other
\* entry stay as they were, so repeated gets of an unexpired key return the
\* same response.
C15_GetHitFrame ==
    [][(ops' = ops + 1 /\ last_op'.op = "get" /\ last_op'.ret # NoneValue)
       => /\ Keys(cache') = Keys(cache)
          /\ Len(cache') = Len(cache)
          /\ \E i \in EntriesFor(cache, last_op'.text) :
                LET before == cache[i]
                    after == EntryOf(cache', before.question_hash)
                IN  /\ last_op'.ret = before.response
                    /\ after = [before EXCEPT
                                   !.hit_count = before.hit_count + 1,
                                   !.last_accessed = after.last_accessed]
                    /\ \A key \in Keys(cache) \ {before.question_hash} :
                          EntryOf(cache', key) = EntryOf(cache, key)
          /\ (/\ last_op.op = "get"
              /\ last_op.ret # NoneValue
              /\ SameNormalizedText(last_op.text, last_op'.text))
             => last_op'.ret = last_op.ret]_vars

\* the same key was hit twice in a row while another entry was stored
C15_Witness ==
    /\ Len(recent) >= 2
    /\ LastUses(2) = <<[use |-> "hit", key |-> KeyA],
                       [use |-> "hit", key |-> KeyA]>>
    /\ Len(cache) = 2
    /\ EntryOf(cache, KeyA).hit_count = 2
    /\ last_op.ret = EntryOf(cache, KeyA).response

\* the histories have not been trimmed: they are below their caps
Untrimmed ==
    /\ Len(completed_tasks) <= completed_cap
    /\ Len(failed_tasks) <= failed_cap

\* C16: before any trimming, every accepted task is in exactly one of the
\* active set, the completed history and the failed history, so the three
\* together count the accepted submissions.
C16_TaskInExactlyOnePlace ==
    Untrimmed =>
        /\ \A t \in Created :
              (IF t \in active_tasks THEN 1 ELSE 0)
                  + Occurrences(completed_tasks, t)
                  + Occurrences(failed_tasks, t) = 1
        /\ Cardinality(active_tasks) + Len(completed_tasks) + Len(failed_tasks)
               = calls.accepted

\* C17: once a call of shutdown with wait = true has ended, no submission is
\* accepted: no task is created and nothing enters the active set.
C17_SubmitAfterShutdownRejected ==
    [][calls.shutdown_wait_ended
       => /\ calls'.accepted = calls.accepted
          /\ Created' = Created
          /\ active_tasks' \subseteq active_tasks]_vars

\* C18: the tasks queued or running never number more than MAX_QUEUE_SIZE,
\* because a submission that finds that many is rejected.
C18_ActiveWithinQueueSize == Cardinality(active_tasks) <= MAX_QUEUE_SIZE

\* the results the caller of submit_batch holds when the call has ended: the
\* task ids of the returned list, or the one error that was raised
BatchResults ==
    Len(batch.returned) + (IF batch.status = "raised" THEN 1 ELSE 0)

\* C19: when submit_batch has ended, every question was submitted, also
\* those after a rejected one, and the caller holds one result, a task id or
\* an error, for every question.
C19_BatchReportsEveryQuestion ==
    batch.status \in {"returned", "raised"}
        => /\ batch.attempted = batch.total
           /\ BatchResults = batch.total

\* C20: once completed_at of a task is set, its completed_at, result and
\* error never change, and the task is in at most one history.
C20_CompletedTaskImmutable ==
    /\ [][\A t \in TaskIds :
              tasks[t].completed_at # 0
              => /\ tasks'[t].completed_at = tasks[t].completed_at
                 /\ tasks'[t].result = tasks[t].result
                 /\ tasks'[t].error = tasks[t].error]_vars
    /\ [](\A t \in TaskIds :
              Occurrences(completed_tasks, t) + Occurrences(failed_tasks, t) <= 1)

\* the times id occurs in a list of task ids
Times(list, id) == Cardinality({i \in DOMAIN list : list[i] = id})

\* C21: when wait_for_completion has returned, every id that was passed in
\* is in exactly one of the lists completed, failed and timed_out, also an
\* id the pool does not know.
C21_EveryIdReportedOnce ==
    waiting.status = "returned"
        => \A i \in DOMAIN waiting.passed :
              Times(waiting.completed, waiting.passed[i])
                  + Times(waiting.failed, waiting.passed[i])
                  + Times(waiting.timed_out, waiting.passed[i]) = 1

\* C22: when shutdown without wait returns, every task that was active when
\* it was called carries the error "Shutdown requested", is in the failed
\* history, has left the active set, and get_task_status reports it failed.
C22_ShutdownNoWaitFailsActive ==
    [][(executor_shutdown' /\ ~executor_shutdown)
       => \A t \in active_tasks :
             /\ tasks'[t].error = "Shutdown requested"
             /\ \E i \in DOMAIN failed_tasks' : failed_tasks'[i] = t
             /\ t \notin active_tasks'
             /\ get_task_status(t)' = "failed"]_vars

\* C23: when shutdown with wait ends, every task accepted before it has
\* completed_at set and is in the completed or the failed history, and the
\* active set is empty.
C23_ShutdownWaitFinishesWork ==
    [][(calls'.shutdown_wait_ended /\ ~calls.shutdown_wait_ended)
       => /\ active_tasks' = {}
          /\ \A t \in Created :
                /\ tasks'[t].completed_at # 0
                /\ Occurrences(completed_tasks', t)
                       + Occurrences(failed_tasks', t) >= 1]_vars

\* the step is one execution of graph node n
Executes(n) == pc = "running" /\ node = n /\ steps' = steps + 1

\* C24: when the classification port call of a classify_question execution
\* succeeds, the next node is check_confidence, also after an earlier failed
\* attempt; classify_question follows itself only when the attempt failed.
C24_ClassifySuccessContinues ==
    [][Executes("classify_question")
       => /\ errors' = errors => node' = "check_confidence"
          /\ node' = "classify_question" => errors' # errors]_vars

\* C25: when the generation port call of a generate_response execution
\* succeeds, the next node is quality_check, also after an earlier failed
\* attempt; handle_error follows generate_response only when the attempt
\* failed and retry_count has reached max_retries.
C25_GenerateSuccessContinues ==
    [][Executes("generate_response")
       => /\ errors' = errors => node' = "quality_check"
          /\ node' = "handle_error"
                => errors' # errors /\ retry_count' >= max_retries]_vars

\* C26: a classified ticket that enters check_confidence with
\* requires_escalation false goes on to route_to_specialist exactly when its
\* confidence is at least the tier-adjusted threshold, and to
\* escalate_to_human otherwise.
C26_TierThresholdDecidesRoute ==
    [][(/\ Executes("check_confidence")
        /\ ~requires_escalation
        /\ classification # NoneValue)
       => IF classification.confidence >= tier_threshold(customer_tier)
          THEN node' = "route_to_specialist"
          ELSE node' = "escalate_to_human"]_vars

\* the ticket is one the confidence gate holds back: it is flagged for
\* escalation or its confidence is below the threshold (0.75, and so also
\* when it is below the lower tier-adjusted threshold)
Gated ==
    \/ requires_escalation
    \/ classification = NoneValue
    \/ classification.confidence < confidence_threshold

\* C27: a ticket that is gated at check_confidence goes from there to
\* escalate_to_human and on to finalize_response; route_to_specialist and
\* generate_response are not executed and the generation port is not called.
C27_GatedTicketNeverGenerated ==
    /\ [][(Executes("check_confidence") /\ Gated')
          => node' = "escalate_to_human"]_vars
    /\ [](("check_confidence" \in visited /\ Gated)
          => /\ generate_calls = 0
             /\ "route_to_specialist" \notin visited
             /\ "generate_response" \notin visited
             /\ node \in {"escalate_to_human", "finalize_response", "END"})

\* a ticket of low confidence was escalated and finalized with no generation
C27_Witness ==
    /\ node = "END"
    /\ "check_confidence" \in visited
    /\ classification # NoneValue
    /\ classification.confidence < confidence_threshold
    /\ {"escalate_to_human", "finalize_response"} \subseteq visited
    /\ generate_calls = 0

\* the values of the enumeration EscalationReason
EscalationReasons ==
    {"low_confidence", "complex_issue", "sentiment_negative", "manual_request",
     "technical_limitation"}

\* C28: a ticket that passed through escalate_to_human is returned with
\* requires_escalation true and an escalation_info whose reason is one of the
\* enumerated reasons, whichever gate escalated it.
C28_EscalatedCarriesInfo ==
    (pc = "returned" /\ "escalate_to_human" \in visited)
        => /\ result.requires_escalation
           /\ result.escalation_info # NoneValue
           /\ result.escalation_info.reason \in EscalationReasons

\* C30: when a ticket that already holds a response reaches handle_error,
\* the response is left as it is and the status becomes failed; the fallback
\* response is only given to a ticket without a response.
C30_ErrorKeepsResponse ==
    [][Executes("handle_error")
       => /\ status' = "failed"
          /\ response' = IF response = NoneValue
                         THEN error_response ELSE response]_vars

\* C29: a question that fails input validation goes from validate_input
\* straight to handle_error: the classifier is not invoked for it and no
\* category handler runs.
C29_InvalidQuestionSkipsClassifier ==
    validation_error(question_text(question)) # "None"
        => /\ graph_state.classifier_calls = 0
           /\ graph_state.handler_calls = 0
           /\ graph_state.steps_completed
                  \in {<<>>, <<"validate_input">>,
                       <<"validate_input", "handle_error">>}

\* C31: a process call appends exactly one entry to the history of the
\* context when the ticket goes through finalize_response and none when it
\* ends in handle_error; no other node adds, removes or reorders entries, so
\* the history grows by one for every finalized ticket of the session.
C31_OneSummaryPerFinalizedTicket ==
    /\ [][IF Executes("finalize_response")
          THEN /\ Len(previous_interactions') = Len(previous_interactions) + 1
               /\ SubSeq(previous_interactions', 1, Len(previous_interactions))
                      = previous_interactions
          ELSE previous_interactions' = previous_interactions]_vars
    /\ [](Len(previous_interactions)
            = EarlierTickets
                + (IF "finalize_response" \in visited THEN 1 ELSE 0))
    /\ [](pc = "returned"
            => ~("finalize_response" \in visited /\ "handle_error" \in visited))

\* a later ticket of a session was finalized and returned
C31_Witness ==
    /\ pc = "returned"
    /\ "finalize_response" \in visited
    /\ Len(previous_interactions) = EarlierTickets + 1
    /\ previous_interactions[1] = EarlierInteractions[1]

\* the tasks whose processing failed: completed_at is set with an error
FailedTasks ==
    {t \in Created : tasks[t].completed_at # 0 /\ tasks[t].error # "None"}

\* C32: get_task_status reports "failed" for every task whose processing
\* failed, also while the worker has not yet removed it from the active set,
\* and wait_for_completion lists no failed task under completed.
C32_FailedTaskReportedFailed ==
    /\ \A t \in FailedTasks : get_task_status(t) = "failed"
    /\ \A i \in DOMAIN waiting.completed :
          waiting.completed[i] \notin FailedTasks

\* the sum of a counter over the workers of worker_stats
RECURSIVE SumOfStats(_, _)
SumOfStats(by_worker, counter) ==
    IF by_worker = <<>> THEN 0
    ELSE by_worker[Len(by_worker)][counter]
            + SumOfStats(SubSeq(by_worker, 1, Len(by_worker) - 1), counter)

\* every accepted task has been worked off
AllFinished == \A t \in Created : worker_pc[t] = "done"

\* the per-worker counters add up to the completed and the failed tasks
WorkerStatsAddUp ==
    /\ SumOfStats(worker_stats, "tasks_completed")
           = Cardinality({t \in Created : tasks[t].result # "None"})
    /\ SumOfStats(worker_stats, "tasks_failed")
           = Cardinality({t \in Created : tasks[t].error # "None"})

\* C33: once all accepted tasks have finished, total_tasks_processed is the
\* number of tasks that completed successfully, and the per-worker counters
\* add up to the numbers of completed and of failed tasks, whatever the
\* interleaving of the workers.
C33_NoCounterUpdateLost ==
    AllFinished
        => /\ total_tasks_processed
                  = Cardinality({t \in Created : tasks[t].result # "None"})
           /\ WorkerStatsAddUp

\* C34: worker ids name workers, not tasks, so the worker statistics never
\* hold more than max_workers different worker ids, however many tasks are
\* processed.
C34_WorkerIdsWithinMaxWorkers ==
    Cardinality(DOMAIN worker_stats) <= max_workers

\* the tasks being processed: started_at set and completed_at unset
BeingProcessed ==
    {t \in Created : tasks[t].started_at /\ tasks[t].completed_at = 0}

\* C35: at most max_workers tasks are being processed at once, and an accepted
\* task is executed by a worker at most once: a worker function starts only
\* for a queued task that was never started before.
C35_AtMostMaxWorkersProcessing ==
    /\ [][\A t \in TaskIds :
             (worker_pc[t] # "started" /\ worker_pc'[t] = "started")
                 => /\ worker_pc[t] = "queued"
                    /\ ~tasks[t].started_at]_vars
    /\ [](Cardinality(BeingProcessed) <= max_workers)

\* max_workers tasks are being processed while another accepted task waits
\* in the executor's queue
C35_Witness ==
    /\ Cardinality(BeingProcessed) = max_workers
    /\ \E t \in Created : worker_pc[t] = "queued" /\ ~tasks[t].started_at

\* ------------------------------------------------- a pool with full histories

\* the task id that stands for any task the pool worked off before the tasks
\* of TaskIds
EarlierTask == 0

\* the tasks the pool completed and failed before: one below each cap
EarlierCompleted == completed_cap - 1
EarlierFailed == failed_cap - 1

\* a pool that has worked off EarlierCompleted tasks that completed and then
\* EarlierFailed tasks that failed, one after the other: every task took a
\* worker id of its own and none is active
WorkerPoolUsed ==
    /\ tasks = [t \in TaskIds |-> WorkerTask]
    /\ active_tasks = {}
    /\ completed_tasks = [i \in 1..EarlierCompleted |-> EarlierTask]
    /\ failed_tasks = [i \in 1..EarlierFailed |-> EarlierTask]
    /\ worker_pc = [t \in TaskIds |-> "none"]
    /\ shutdown_flag = FALSE
    /\ executor_shutdown = FALSE
    /\ next_worker_id = EarlierCompleted + EarlierFailed + 1
    /\ total_tasks_processed = EarlierCompleted
    /\ worker_stats =
           [w \in 1..(EarlierCompleted + EarlierFailed) |->
               IF w <= EarlierCompleted
               THEN [tasks_completed |-> 1, tasks_failed |-> 0]
               ELSE [tasks_completed |-> 0, tasks_failed |-> 1]]
    /\ loaded_total = [t \in TaskIds |-> 0]
    /\ kept_slice = [t \in TaskIds |-> <<>>]
    /\ batch = NoBatch
    /\ calls = [accepted |-> 0, rejected |-> FALSE, shutdowns |-> 0,
                shutdown_wait_ended |-> FALSE]
    /\ waiting = NoWait

InitHistory ==
    /\ InitialTicket
    /\ question = "cancel"
    /\ customer_tier = "standard"
    /\ ResponseCacheNew
    /\ WorkerPoolUsed
    /\ SupportWorkflowNew

\* the tasks are submitted one by one and worked off by the workers
NextHistory ==
    \/ submit_question
    \/ start_processing
    \/ process_question
    \/ move_to_history
    \/ trim_history
    \/ update_performance_tracking
    \/ remove_from_active

SpecHistory == InitHistory /\ [][NextHistory]_vars

\* the tasks a worker has appended to the completed history, and to the
\* failed history
AppendedCompleted ==
    {t \in TaskIds :
        \/ worker_pc[t] \in {"trimming_completed", "tracking"}
        \/ worker_pc[t] \in {"moved", "done"} /\ tasks[t].error = "None"}

AppendedFailed ==
    {t \in TaskIds :
        \/ worker_pc[t] = "trimming_failed"
        \/ worker_pc[t] \in {"moved", "done"} /\ tasks[t].error # "None"}

\* no worker is between its append and the assignment of the trimmed list
NoTrimPending ==
    \A t \in TaskIds :
        worker_pc[t] \notin {"trimming_completed", "trimming_failed"}

\* C36: once the workers have finished their history updates the completed
\* history holds at most 1000 tasks and the failed history at most 100; a
\* trim leaves the most recent 500 resp. 50 tasks; and a task a worker has
\* appended is still in its history when the trims are over, also when
\* another worker was trimming meanwhile (fewer than 50 tasks are worked off
\* here, so no trim may drop one of them).
C36_HistoriesBoundedNothingDropped ==
    /\ [][\A t \in TaskIds :
             /\ (worker_pc[t] = "trimming_completed"
                    /\ worker_pc'[t] # "trimming_completed")
                    => Len(completed_tasks') = completed_keep
             /\ (worker_pc[t] = "trimming_failed"
                    /\ worker_pc'[t] # "trimming_failed")
                    => Len(failed_tasks') = failed_keep]_vars
    /\ [](NoTrimPending => /\ Len(completed_tasks) <= completed_cap
                           /\ Len(failed_tasks) <= failed_cap)
    /\ [](NoTrimPending =>
              /\ \A t \in AppendedCompleted : Occurrences(completed_tasks, t) = 1
              /\ \A t \in AppendedFailed : Occurrences(failed_tasks, t) = 1)

\* C37: a put for a key that is already in the cache replaces that key's
\* entry and evicts nothing: the keys and the number of entries are as
\* before and every other entry is unchanged, also when the cache holds
\* max_size entries.
C37_PutExistingEvictsNothing ==
    [][(/\ ops' = ops + 1
        /\ last_op'.op = "put"
        /\ last_op'.key \in Keys(cache))
       => /\ Keys(cache') = Keys(cache)
          /\ Len(cache') = Len(cache)
          /\ \A i \in DOMAIN cache :
                 cache[i].question_hash # last_op'.key
                     => \E j \in DOMAIN cache' : cache'[j] = cache[i]
          /\ \E j \in DOMAIN cache' :
                 /\ cache'[j].question_hash = last_op'.key
                 /\ cache'[j].response = last_op'.response]_vars

\* ------------------------------------------ clear and import_cache_data

MaxImport == 2             \* entries in the data of one import_cache_data call

\* clear(): the entries are dropped and _reset_stats zeroes the statistics
clear ==
    /\ cache' = <<>>
    /\ stats' = [hits |-> 0, misses |-> 0, evictions |-> 0, ttl_expires |-> 0,
                 total_requests |-> 0]
    /\ Completes(Op("clear", <<>>, NoneValue, NoneValue), "other")
    /\ UNCHANGED <<now, outside_cache>>

\* the question texts of the entries in imported data
ImportTexts == {TReset, TBilling}

\* the entries data["cache_entries"] can hold at time at, as
\* export_cache_data wrote them before: the key of a question text, its
\* response and the time the entry was created, which is the start of the
\* clock or the present hour; an entry that is not valid lacks a field or
\* holds an unreadable date
ImportEntries(at, resp) ==
    [text : ImportTexts, response : {resp}, created_at : {0, at},
     valid : BOOLEAN]

\* data["cache_entries"]: a dictionary, so its keys differ, in its order
ImportData(at, resp) ==
    {data \in UNION {[1..n -> ImportEntries(at, resp)] : n \in 1..MaxImport} :
        \A m, n \in DOMAIN data :
            m # n => CacheKey[data[m].text] # CacheKey[data[n].text]}

\* self._cache[key] = entry: an existing key keeps its position
assign(c, entry) ==
    IF entry.question_hash \in Keys(c)
    THEN [c EXCEPT ![IndexOf(c, entry.question_hash)] = entry]
    ELSE Append(c, entry)

\* the loop of import_cache_data over the entries left in data: an entry that
\* raises is skipped by "continue", an entry that is not expired is stored
\* and counted, and the loop is left after an entry once the cache holds
\* max_size entries or more
RECURSIVE import_entries(_, _, _, _)
import_entries(c, data, imported_count, at) ==
    IF data = <<>> THEN [cache |-> c, imported_count |-> imported_count]
    ELSE LET entry_data == Head(data)
             entry == CacheEntry(CacheKey[entry_data.text], entry_data.text,
                                 entry_data.response, entry_data.created_at)
             live == ~is_expired(entry, at)
             stored == IF live THEN assign(c, entry) ELSE c
             counted == IF live THEN imported_count + 1 ELSE imported_count
         IN  IF ~entry_data.valid
             THEN import_entries(c, Tail(data), imported_count, at)
             ELSE IF Len(stored) >= max_size
             THEN [cache |-> stored, imported_count |-> counted]
             ELSE import_entries(stored, Tail(data), counted, at)

\* import_cache_data(data): returns the number of entries imported
import_cache_data ==
    \E data \in ImportData(now, NewResponse(ops + 1)) :
        LET outcome_of_import == import_entries(cache, data, 0, now)
        IN  /\ cache' = outcome_of_import.cache
            /\ Completes(Op("import_cache_data", <<>>, NoneValue,
                            outcome_of_import.imported_count), "other")
            /\ UNCHANGED <<stats, now, outside_cache>>

\* a cache that callers get from, put into, clear and import into
NextCacheData ==
    \/ get
    \/ put
    \/ clear
    \/ import_cache_data
    \/ Tick

SpecCacheData == InitCache /\ [][NextCacheData]_vars

\* the entries a put has to remove to make room for one entry
PressureRemoved ==
    IF Len(cache) >= max_size THEN Len(cache) - max_size + 1 ELSE 0

C39_ImportWithinMaxSize ==
    [][(ops' = ops + 1 /\ last_op'.op = "import_cache_data")
          => Len(cache') <= max_size]_vars

=============================================================================
